---- MODULE Spec2Model ----
(***************************************************************************)
(* The YouTube video pipeline of backend/routes/ytdlVideo.ts               *)
(* (POST /youtube/video): download, select, probe, optional audio merge,   *)
(* optional AAC/MP4 fix, copy-or-transcode, respond.  One request is       *)
(* followed through every await of the handler; the disk holds the files   *)
(* of the uploads and outputs directories.                                 *)
(***************************************************************************)
EXTENDS Integers, Sequences, FiniteSets, TLC

\* ---------------------------------------------------------------- bounds
MaxFiles == 2      \* files one download call may leave on disk

\* ------------------------------------------------------------- constants
None    == "none"                 \* a null codec, a missing body field
Id      == "X"                    \* crypto.randomUUID() of this request
OtherId == "Y"                    \* a file of some other request
Targets == {"mp4", "webm", "mkv", "avi", "mov", "flv"}
VIDEO_EXTS == {"mp4", "webm", "mkv", "mov", "avi", "flv"}
AUDIO_EXTS == {"m4a", "mp3", "ogg", "opus", "wav"}
ExitCodes  == {0, 1}              \* runFFmpeg resolves code ?? 1
Sizes      == {1, 2}              \* stat.size: a small and a large file

\* path.extname(name).toLowerCase(), without the dot
ToLower(e) == IF e = "MP4" THEN "mp4" ELSE IF e = "MKV" THEN "mkv" ELSE e
ExtName(p) == ToLower(p.ext)

\* String.prototype.includes
Includes(s, sub) ==
  \E i \in 1..(Len(s) + 1) :
     /\ i + Len(sub) - 1 <= Len(s)
     /\ SubSeq(s, i, i + Len(sub) - 1) = sub

\* (codec || "")
OrEmpty(c) == IF c = None THEN "" ELSE c

\* const isH264 = (vcodec || "").includes("h264") || ...includes("avc1")
IsH264(vcodec) ==
  Includes(OrEmpty(vcodec), "h264") \/ Includes(OrEmpty(vcodec), "avc1")

\* const isAAC = (acodec || "").includes("aac") || ...includes("mp4a")
IsAAC(acodec) ==
  Includes(OrEmpty(acodec), "aac") \/ Includes(OrEmpty(acodec), "mp4a")

\* const wantMp4 = target === "mp4" || target === "mov"
WantMp4(t) == t = "mp4" \/ t = "mov"

\* if (!acodec): the audio merge is entered
NeedsRepairNever(acodec) == FALSE
NeedsRepair(acodec) == acodec = None

\* if (wantMp4 && (!isAAC || extNow !== ".mp4")): the AAC/MP4 fix is entered
CompatNeededAudioOnly(t, aac, extNow) == WantMp4(t) /\ ~aac
CompatNeeded(t, aac, extNow) == WantMp4(t) /\ (~aac \/ extNow # "mp4")

CanCopyAny(t, ext, h264, aac) == TRUE

\* const canCopy = (wantMp4 && ext === ".mp4" && isH264 && isAAC) ||
\*                 (wantWebm && ext === ".webm") || (wantMkv && ext === ".mkv")
CanCopy(t, ext, h264, aac) ==
  \/ (WantMp4(t) /\ ext = "mp4" /\ h264 /\ aac)
  \/ (t = "webm" /\ ext = "webm")
  \/ (t = "mkv" /\ ext = "mkv")

\* codecs buildVideoArgs encodes for each target
EncodedVideo(t) ==
  CASE t = "webm" -> "vp9"
    [] t = "avi"  -> "mpeg4"
    [] OTHER      -> "h264"
EncodedAudio(t) ==
  CASE t = "webm" -> "opus"
    [] t = "avi"  -> "mp3"
    [] OTHER      -> "aac"

\* ------------------------------------------------------------ file system
\* A file is its path (dir, id tag, stem, ext) and its content (streams, size).
Path(dir, id, stem, ext) == [dir |-> dir, id |-> id, stem |-> stem, ext |-> ext]
File(p, v, a, size) == [path |-> p, v |-> v, a |-> a, size |-> size]

Content(f) == [v |-> f.v, a |-> f.a, size |-> f.size]   \* the bytes of a file
NoPath    == [dir |-> None]       \* inPath before it is assigned
NoPick    == [kind |-> None]      \* pickDownloadedFile returning null
NoReply   == [status |-> 0]       \* nothing sent yet
NoPayload == [size |-> 0]         \* no buffer read
Exists(d, p) == \E f \in d : f.path = p
FileAt(d, p) == CHOOSE f \in d : f.path = p
\* fs.unlink wrapped in try/catch
unlinkSafe(d, p) == {f \in d : f.path # p}
\* creating or overwriting p (ffmpeg -y, fs.copyFile, yt-dlp output)
WriteFile(d, f) == unlinkSafe(d, f.path) \cup {f}
\* files carrying a request id, in either directory
Tagged(d, id) == {f \in d : f.path.id = id}

dlTemplate(ext) == Path("UP", Id, "", ext)          \* UP/<id>.%(ext)s
outPath(t)      == Path("OUT", Id, "", t)           \* OUT/<id>.<target>
audioTmp        == Path("UP", Id, "audio", "m4a")   \* UP/<id>.audio.m4a
mergedWithAudio == Path("UP", Id, "merged", "mp4")  \* UP/<id>.merged.mp4
fixedMp4        == Path("UP", Id, "fixaudio", "mp4")\* UP/<id>.fixaudio.mp4

\* What yt-dlp can write for one request: (ext, video codec, audio codec).
DownloadKinds ==
  { <<"mp4", "h264", "aac">>,  <<"mp4", "h264", None>>, <<"mp4", "h264", "opus">>,
    <<"MP4", "h264", "aac">>,
    <<"webm", "vp9", "opus">>, <<"webm", None, "opus">>,
    <<"mkv", "h264", "aac">>,  <<"mov", "h264", "aac">>,
    <<"avi", "mpeg4", "mp3">>,
    <<"m4a", None, "aac">>,    <<"jpg", None, None>> }

DownloadFiles ==
  { File(dlTemplate(k[1]), k[2], k[3], s) : k \in DownloadKinds, s \in Sizes }

\* sets of at most n files with pairwise distinct names
RECURSIVE FileSets(_)
FileSets(n) ==
  IF n = 0 THEN {{}}
  ELSE LET prev == FileSets(n - 1)
       IN prev \cup UNION { { S \cup {f} :
                                f \in {g \in DownloadFiles :
                                         \A h \in S : h.path # g.path} } :
                            S \in prev }
DownloadOutcomes == FileSets(MaxFiles)

\* -------------------------------------------------------- pickDownloadedFile
\* files.filter((f) => f.startsWith(id + ".")) over readdir(UP)
MatchesAnyId(d, id) == {f \in d : f.path.dir = "UP"}

Matches(d, id) == {f \in d : f.path.dir = "UP" /\ f.path.id = id}

FirstAny(S) == S

\* list.find(pred) over the list sorted largest first; equal sizes keep the
\* order readdir gave them, which the code does not control
FirstLargest(S) == {f \in S : \A g \in S : g.size <= f.size}

Picked(kind, f) ==
  [kind |-> kind, full |-> f.path, ext |-> ExtName(f.path), size |-> f.size]

pickDownloadedFile(d, id) ==
  LET list      == Matches(d, id)
      container == {f \in list : ExtName(f.path) \in VIDEO_EXTS}
      audioOnly == {f \in list : ExtName(f.path) \in AUDIO_EXTS}
  IN IF container # {} THEN {Picked("video", f) : f \in FirstLargest(container)}
     ELSE IF audioOnly # {} THEN {Picked("audio", f) : f \in FirstLargest(audioOnly)}
     ELSE {NoPick}

\* ---------------------------------------------------------------- probeCodecs
\* ffprobe reports the first video and audio stream; a missing ffprobe, a
\* spawn error or unparsable output all resolve to {v: null, a: null}
probeCodecs(d, p) ==
  {[v |-> None, a |-> None]} \cup
  (IF Exists(d, p) THEN {[v |-> FileAt(d, p).v, a |-> FileAt(d, p).a]} ELSE {})

\* ------------------------------------------------------------------ request
RECURSIVE Trim(_)
Trim(s) ==
  IF Len(s) = 0 THEN s
  ELSE IF SubSeq(s, 1, 1) = " " THEN Trim(SubSeq(s, 2, Len(s)))
  ELSE IF SubSeq(s, Len(s), Len(s)) = " " THEN Trim(SubSeq(s, 1, Len(s) - 1))
  ELSE s

Urls == {"", " ", "u", " u "}

\* asNumber(v, fallback): an absent field (<<>>) is NaN and takes the fallback
asNumber(v, fallback) == IF v = <<>> THEN fallback ELSE v[1]

\* the encode parameters of a body: all absent, or all given but maxH
BodyParams ==
  { [crf |-> <<>>, preset |-> None, audioKbps |-> <<>>,
     maxW |-> <<>>, maxH |-> <<>>, fps |-> <<>>],
    [crf |-> <<30>>, preset |-> "slow", audioKbps |-> <<192>>,
     maxW |-> <<1280>>, maxH |-> <<>>, fps |-> <<30>>] }
Bodies == [url : Urls, target : Targets \cup {None}, enc : BodyParams]

\* const crf = asNumber(b.crf, target === "webm" ? 28 : 23); const preset = ...
ParamsOf(b, t) ==
  [crf       |-> asNumber(b.enc.crf, IF t = "webm" THEN 28 ELSE 23),
   preset    |-> IF b.enc.preset = None THEN "veryfast" ELSE b.enc.preset,
   audioKbps |-> asNumber(b.enc.audioKbps, 128),
   maxW      |-> asNumber(b.enc.maxW, 0),
   maxH      |-> asNumber(b.enc.maxH, 0),
   fps       |-> asNumber(b.enc.fps, 0)]

\* ------------------------------------------------------------- buildVideoArgs
QscaleUnclamped(crf) == (crf - 18) * 2 + 2

\* Math.max(2, Math.min(31, Math.round((crf - 18) * 2 + 2)))
Min(a, b) == IF a < b THEN a ELSE b
Max(a, b) == IF a > b THEN a ELSE b
Qscale(crf) == Max(2, Min(31, (crf - 18) * 2 + 2))

\* The argument list as a map from option to value: "i" the input, "out" the
\* trailing output path, "vf" the scale box <<w, h>>, "r" the frame rate.
ArgKeys(o) ==
  {"i", "out", "cv", "ca", "ba"}
    \cup (IF o.maxW > 0 \/ o.maxH > 0 THEN {"vf"} ELSE {})
    \cup (IF o.fps > 0 THEN {"r"} ELSE {})
    \cup (CASE o.target = "webm" -> {"bv", "crf"}
            [] o.target \in {"mp4", "mov"} -> {"preset", "crf", "movflags"}
            [] o.target = "avi" -> {"qv"}
            [] OTHER -> {"preset", "crf"})

ArgValue(o, k) ==
  CASE k = "i"        -> o.inPath
    [] k = "out"      -> o.outPath
    [] k = "vf"       -> << IF o.maxW > 0 THEN o.maxW ELSE -1,
                            IF o.maxH > 0 THEN o.maxH ELSE -1 >>
    [] k = "r"        -> o.fps
    [] k = "cv"       -> (CASE o.target = "webm" -> "libvpx-vp9"
                            [] o.target = "avi"  -> "mpeg4"
                            [] OTHER             -> "libx264")
    [] k = "ca"       -> (CASE o.target = "webm" -> "libopus"
                            [] o.target = "avi"  -> "libmp3lame"
                            [] OTHER             -> "aac")
    [] k = "ba"       -> o.audioKbps
    [] k = "bv"       -> 0
    [] k = "crf"      -> o.crf
    [] k = "preset"   -> o.preset
    [] k = "qv"       -> Qscale(o.crf)
    [] k = "movflags" -> "+faststart"

buildVideoArgsDefaults(o) ==
  [k \in ArgKeys(o) |-> ArgValue([o EXCEPT !.crf = 23, !.audioKbps = 128], k)]

buildVideoArgs(o) == [k \in ArgKeys(o) |-> ArgValue(o, k)]
NoArgs == [k \in {} |-> 0]       \* no final encode has been started

videoMimeMp4(ext) == "video/mp4"

\* videoMime(ext)
videoMime(ext) ==
  CASE ext = "mp4"  -> "video/mp4"
    [] ext = "webm" -> "video/webm"
    [] ext = "mkv"  -> "video/x-matroska"
    [] ext = "avi"  -> "video/x-msvideo"
    [] ext = "mov"  -> "video/quicktime"
    [] ext = "flv"  -> "video/x-flv"
    [] OTHER        -> "application/octet-stream"

Error(status, msg) == [status |-> status, error |-> msg, type |-> "application/json"]

VARIABLES
  pc,            \* position of the handler
  url, target,   \* b.url trimmed, b.target defaulted
  disk,          \* files of uploads/ and outputs/
  picked,        \* result of pickDownloadedFile
  inPath,        \* let inPath: the current artifact
  vcodec, acodec,\* let { v: vcodec, a: acodec }
  extNow,        \* const extNow, computed before the AAC/MP4 fix
  isH264, isAAC, \* the consts computed before the AAC/MP4 fix
  params,        \* crf, preset, audioKbps, maxW, maxH, fps of the request
  exit,          \* exit code of the last runFFmpeg
  encArgs,       \* args given to the final runFFmpeg
  plan,          \* "Copy" when canCopy, else "Transcode"
  reply,         \* the response sent
  payload,       \* buffer read from outPath
  unlinking,     \* readFileAndUnlink's fs.unlink still in flight
  probes,        \* history: every probe made, in order
  log,           \* history: every external call and decision, in order
  route,         \* batch routes: "video" or "audio" /convert-batch
  parts,         \* batch routes: the multipart parts of the request, in order
  cur,           \* batch routes: number of parts the for-await loop has taken
  archive,       \* batch routes: entries appended to the zip, in order
  zip            \* batch routes: "open", "finalized" or "aborted"

\* the state of a batch request; a POST /video request leaves it alone
batch == <<route, parts, cur, archive, zip>>

vars == <<pc, url, target, params, encArgs, disk, picked, inPath, vcodec, acodec, extNow,
          isH264, isAAC, exit, plan, reply, payload, unlinking, probes, log, batch>>

\* no batch request is running
NoBatch ==
  route = None /\ parts = <<>> /\ cur = 0 /\ archive = <<>> /\ zip = None

ForeignFile == File(Path("UP", OtherId, "", "mp4"), "h264", "aac", 2)

Init ==
  /\ \E b \in Bodies :
       /\ url = Trim(b.url)
       /\ target = IF b.target = None THEN "mp4" ELSE b.target
       /\ params = ParamsOf(b, IF b.target = None THEN "mp4" ELSE b.target)
  /\ encArgs = NoArgs
  /\ disk = {ForeignFile}
  /\ pc = "start"
  /\ picked = NoPick
  /\ inPath = NoPath
  /\ vcodec = None /\ acodec = None
  /\ extNow = None
  /\ isH264 = FALSE /\ isAAC = FALSE
  /\ exit = 0
  /\ plan = None
  /\ reply = NoReply
  /\ payload = NoPayload
  /\ unlinking = FALSE
  /\ probes = <<>>
  /\ log = <<>>
  /\ NoBatch

\* ------------------------------------------------------------------ actions
\* } catch (e) { return reply.code(500).send({ error: ... }) }
Catch == Error(500, "youtube download/convert failed")

\* what an interrupted writer may leave at path p
Partial(p) == File(p, None, None, 1)
MaybePartial(d, p) == {d, WriteFile(d, Partial(p))}

\* ({ v: vcodec, a: acodec } = await probeCodecs(p))
DoProbe(p) ==
  \E r \in probeCodecs(disk, p) :
     /\ vcodec' = r.v
     /\ acodec' = r.a
     /\ probes' = Append(probes, [path |-> p, v |-> r.v, a |-> r.a])
     /\ log' = Append(log, "probe")

StartUnchecked ==
  /\ pc = "start"
  /\ pc' = "download"
  /\ UNCHANGED <<batch, url, target, params, encArgs, disk, picked, inPath, vcodec, acodec, extNow, isH264, isAAC,
                 exit, plan, reply, payload, unlinking, probes, log>>

\* if (!url) return reply.code(400).send({ error: "Missing url" })
Start ==
  /\ pc = "start"
  /\ IF url = ""
        THEN reply' = Error(400, "Missing url") /\ pc' = "done"
        ELSE reply' = reply /\ pc' = "download"
  /\ UNCHANGED <<batch, url, target, params, encArgs, disk, picked, inPath, vcodec, acodec, extNow, isH264, isAAC,
                 exit, plan, payload, unlinking, probes, log>>

\* await ytdl(url, { output: dlTemplate, ... }): resolves, or rejects to catch
DownloadOk ==
  /\ pc = "download"
  /\ \E S \in DownloadOutcomes : disk' = disk \cup S
  /\ pc' = "select"
  /\ log' = Append(log, "download")
  /\ UNCHANGED <<batch, url, target, params, encArgs, picked, inPath, vcodec, acodec, extNow, isH264, isAAC,
                 exit, plan, reply, payload, unlinking, probes>>

DownloadRaises ==
  /\ pc = "download"
  /\ disk' \in MaybePartial(disk, Path("UP", Id, "mp4", "part"))
  /\ reply' = Catch
  /\ pc' = "done"
  /\ log' = Append(log, "download")
  /\ UNCHANGED <<batch, url, target, params, encArgs, picked, inPath, vcodec, acodec, extNow, isH264, isAAC,
                 exit, plan, payload, unlinking, probes>>

\* const picked = await pickDownloadedFile(id)
SelectPrunes ==
  /\ pc = "select"
  /\ picked' \in pickDownloadedFile(disk, Id)
  /\ disk' = {f \in disk : f.path.id # Id \/ picked'.kind = None
                              \/ f.path = picked'.full}
  /\ pc' = "selected"
  /\ log' = Append(log, "select")
  /\ UNCHANGED <<batch, url, target, params, encArgs, inPath, vcodec, acodec, extNow, isH264, isAAC,
                 exit, plan, reply, payload, unlinking, probes>>

Select ==
  /\ pc = "select"
  /\ picked' \in pickDownloadedFile(disk, Id)
  /\ pc' = "selected"
  /\ log' = Append(log, "select")
  /\ UNCHANGED <<batch, url, target, params, encArgs, disk, inPath, vcodec, acodec, extNow, isH264, isAAC,
                 exit, plan, reply, payload, unlinking, probes>>

NoArtifactRetries ==
  /\ pc = "selected"
  /\ picked = NoPick
  /\ pc' = "download"
  /\ UNCHANGED <<batch, url, target, params, encArgs, disk, picked, inPath, vcodec, acodec, extNow, isH264, isAAC,
                 exit, plan, reply, payload, unlinking, probes, log>>

\* if (!picked) return reply.code(500).send({ error: "Download failed" })
NoArtifact ==
  /\ pc = "selected"
  /\ picked = NoPick
  /\ reply' = Error(500, "Download failed")
  /\ pc' = "done"
  /\ UNCHANGED <<batch, url, target, params, encArgs, disk, picked, inPath, vcodec, acodec, extNow, isH264, isAAC,
                 exit, plan, payload, unlinking, probes, log>>

\* if (picked.kind === "audio") { await unlinkSafe(picked.full); return 422 }
AudioOnly ==
  /\ pc = "selected"
  /\ picked.kind = "audio"
  /\ disk' = unlinkSafe(disk, picked.full)
  /\ reply' = Error(422, "Downloaded file has no video stream.")
  /\ pc' = "done"
  /\ UNCHANGED <<batch, url, target, params, encArgs, picked, inPath, vcodec, acodec, extNow, isH264, isAAC,
                 exit, plan, payload, unlinking, probes, log>>

Probe1Raises ==
  /\ pc = "selected"
  /\ picked.kind = "video"
  /\ inPath' = picked.full
  /\ DoProbe(picked.full)
  /\ IF vcodec' = None /\ acodec' = None
        THEN reply' = Catch /\ pc' = "done"
        ELSE reply' = reply /\ pc' = "probed"
  /\ UNCHANGED <<batch, url, target, params, encArgs, disk, picked, extNow, isH264, isAAC,
                 exit, plan, payload, unlinking>>

\* let inPath = inPath0; let { v, a } = await probeCodecs(inPath)
Probe1 ==
  /\ pc = "selected"
  /\ picked.kind = "video"
  /\ inPath' = picked.full
  /\ DoProbe(picked.full)
  /\ pc' = "probed"
  /\ UNCHANGED <<batch, url, target, params, encArgs, disk, picked, extNow, isH264, isAAC,
                 exit, plan, reply, payload, unlinking>>

\* if (!acodec) { await ytdl(url, { output: audioTmp, ... })
AudioDownloadOk ==
  /\ pc = "probed"
  /\ NeedsRepair(acodec)
  /\ disk' = WriteFile(disk, File(audioTmp, None, "aac", 1))
  /\ pc' = "audioReady"
  /\ log' = Append(log, "audioDownload")
  /\ UNCHANGED <<batch, url, target, params, encArgs, picked, inPath, vcodec, acodec, extNow, isH264, isAAC,
                 exit, plan, reply, payload, unlinking, probes>>

AudioDownloadRaises ==
  /\ pc = "probed"
  /\ NeedsRepair(acodec)
  /\ disk' \in MaybePartial(disk, Path("UP", Id, "audio.m4a", "part"))
  /\ reply' = Catch
  /\ pc' = "done"
  /\ log' = Append(log, "audioDownload")
  /\ UNCHANGED <<batch, url, target, params, encArgs, picked, inPath, vcodec, acodec, extNow, isH264, isAAC,
                 exit, plan, payload, unlinking, probes>>

\* const mcode = await runFFmpeg(mergeArgs): -map 0:v:0 -map 1:a:0 -c:v copy
\* -c:a aac; it cannot succeed on an input without a video stream
MergeEncode ==
  /\ pc = "audioReady"
  /\ \E c \in ExitCodes :
       /\ exit' = c
       /\ IF c = 0
            THEN /\ FileAt(disk, inPath).v # None
                 /\ disk' = WriteFile(disk, File(mergedWithAudio,
                                   FileAt(disk, inPath).v, "aac",
                                   FileAt(disk, inPath).size))
            ELSE disk' \in MaybePartial(disk, mergedWithAudio)
  /\ pc' = "mergeRan"
  /\ log' = Append(log, "encodeMerge")
  /\ UNCHANGED <<batch, url, target, params, encArgs, picked, inPath, vcodec, acodec, extNow, isH264, isAAC,
                 plan, reply, payload, unlinking, probes>>

\* await unlinkSafe(audioTmp); if (mcode !== 0) return 500
MergeCleanupKeepsAudio ==
  /\ pc = "mergeRan"
  /\ IF exit # 0
        THEN reply' = Error(500, "ffmpeg failed while merging audio") /\ pc' = "done"
        ELSE reply' = reply /\ pc' = "mergeOk"
  /\ UNCHANGED <<batch, url, target, params, encArgs, disk, picked, inPath, vcodec, acodec, extNow,
                 isH264, isAAC, exit, plan, payload, unlinking, probes, log>>

MergeCleanup ==
  /\ pc = "mergeRan"
  /\ disk' = unlinkSafe(disk, audioTmp)
  /\ IF exit # 0
        THEN reply' = Error(500, "ffmpeg failed while merging audio") /\ pc' = "done"
        ELSE reply' = reply /\ pc' = "mergeOk"
  /\ UNCHANGED <<batch, url, target, params, encArgs, picked, inPath, vcodec, acodec, extNow, isH264, isAAC,
                 exit, plan, payload, unlinking, probes, log>>

\* await unlinkSafe(inPath); inPath = mergedWithAudio
MergeReplaceKeepsInput ==
  /\ pc = "mergeOk"
  /\ inPath' = mergedWithAudio
  /\ pc' = "reprobe"
  /\ UNCHANGED <<batch, url, target, params, encArgs, disk, picked, vcodec, acodec, extNow, isH264, isAAC,
                 exit, plan, reply, payload, unlinking, probes, log>>

MergeReplace ==
  /\ pc = "mergeOk"
  /\ disk' = unlinkSafe(disk, inPath)
  /\ inPath' = mergedWithAudio
  /\ pc' = "reprobe"
  /\ UNCHANGED <<batch, url, target, params, encArgs, picked, vcodec, acodec, extNow, isH264, isAAC,
                 exit, plan, reply, payload, unlinking, probes, log>>

\* ({ v: vcodec, a: acodec } = await probeCodecs(inPath))  // after merge
Probe2 ==
  /\ pc = "reprobe"
  /\ DoProbe(inPath)
  /\ pc' = "reprobed"
  /\ UNCHANGED <<batch, url, target, params, encArgs, disk, picked, inPath, extNow, isH264, isAAC,
                 exit, plan, reply, payload, unlinking>>

\* const extNow, wantMp4, isH264, isAAC; if (wantMp4 && (!isAAC || extNow !== ".mp4"))
AtCompat == IF pc = "probed" THEN ~NeedsRepair(acodec) ELSE pc = "reprobed"

CheckCompat ==
  /\ AtCompat
  /\ extNow' = ExtName(inPath)
  /\ isH264' = IsH264(vcodec)
  /\ isAAC' = IsAAC(acodec)
  /\ pc' = IF CompatNeeded(target, IsAAC(acodec), ExtName(inPath)) THEN "fix" ELSE "plan"
  /\ UNCHANGED <<batch, url, target, params, encArgs, disk, picked, inPath, vcodec, acodec,
                 exit, plan, reply, payload, unlinking, probes, log>>

\* const fcode = await runFFmpeg(fixArgs): -c:v copy -c:a aac into fixedMp4
FixEncode ==
  /\ pc = "fix"
  /\ \E c \in ExitCodes :
       /\ exit' = c
       /\ IF c = 0
            THEN disk' = WriteFile(disk, File(fixedMp4, FileAt(disk, inPath).v,
                             IF FileAt(disk, inPath).a = None THEN None ELSE "aac",
                             FileAt(disk, inPath).size))
            ELSE disk' \in MaybePartial(disk, fixedMp4)
  /\ pc' = "fixRan"
  /\ log' = Append(log, "encodeFix")
  /\ UNCHANGED <<batch, url, target, params, encArgs, picked, inPath, vcodec, acodec, extNow, isH264, isAAC,
                 plan, reply, payload, unlinking, probes>>

FixFailRetries ==
  /\ pc = "fixRan"
  /\ exit # 0
  /\ disk' = unlinkSafe(disk, fixedMp4)
  /\ pc' = "fix"
  /\ UNCHANGED <<batch, url, target, params, encArgs, picked, inPath, vcodec, acodec, extNow, isH264, isAAC,
                 exit, plan, reply, payload, unlinking, probes, log>>

\* if (fcode !== 0) { await unlinkSafe(fixedMp4); return 500 }
FixFail ==
  /\ pc = "fixRan"
  /\ exit # 0
  /\ disk' = unlinkSafe(disk, fixedMp4)
  /\ reply' = Error(500, "ffmpeg failed while fixing audio")
  /\ pc' = "done"
  /\ UNCHANGED <<batch, url, target, params, encArgs, picked, inPath, vcodec, acodec, extNow, isH264, isAAC,
                 exit, plan, payload, unlinking, probes, log>>

FixReplaceSkipsProbe ==
  /\ pc = "fixRan"
  /\ exit = 0
  /\ disk' = unlinkSafe(disk, inPath)
  /\ inPath' = fixedMp4
  /\ pc' = "plan"
  /\ UNCHANGED <<batch, url, target, params, encArgs, picked, vcodec, acodec, extNow, isH264, isAAC,
                 exit, plan, reply, payload, unlinking, probes, log>>

\* await unlinkSafe(inPath); inPath = fixedMp4
FixReplace ==
  /\ pc = "fixRan"
  /\ exit = 0
  /\ disk' = unlinkSafe(disk, inPath)
  /\ inPath' = fixedMp4
  /\ pc' = "refix"
  /\ UNCHANGED <<batch, url, target, params, encArgs, picked, vcodec, acodec, extNow, isH264, isAAC,
                 exit, plan, reply, payload, unlinking, probes, log>>

\* ({ v: vcodec, a: acodec } = await probeCodecs(inPath))  // after audio fix
Probe3 ==
  /\ pc = "refix"
  /\ DoProbe(inPath)
  /\ pc' = "plan"
  /\ UNCHANGED <<batch, url, target, params, encArgs, disk, picked, inPath, extNow, isH264, isAAC,
                 exit, plan, reply, payload, unlinking>>

\* const ext = path.extname(inPath).toLowerCase(); const canCopy = ...
Plan ==
  /\ pc = "plan"
  /\ plan' = IF CanCopy(target, ExtName(inPath), isH264, isAAC)
               THEN "Copy" ELSE "Transcode"
  /\ pc' = "exec"
  /\ log' = Append(log, "plan")
  /\ UNCHANGED <<batch, url, target, params, encArgs, disk, picked, inPath, vcodec, acodec, extNow,
                 isH264, isAAC, exit, reply, payload, unlinking, probes>>

\* if (canCopy) { await fs.copyFile(inPath, outPath)
CopyFile ==
  /\ pc = "exec"
  /\ plan = "Copy"
  /\ disk' = WriteFile(disk, [FileAt(disk, inPath) EXCEPT !.path = outPath(target)])
  /\ pc' = "copied"
  /\ log' = Append(log, "copy")
  /\ UNCHANGED <<batch, url, target, params, encArgs, picked, inPath, vcodec, acodec, extNow, isH264, isAAC,
                 exit, plan, reply, payload, unlinking, probes>>

CopyRaises ==
  /\ pc = "exec"
  /\ plan = "Copy"
  /\ disk' \in MaybePartial(disk, outPath(target))
  /\ reply' = Catch
  /\ pc' = "done"
  /\ log' = Append(log, "copy")
  /\ UNCHANGED <<batch, url, target, params, encArgs, picked, inPath, vcodec, acodec, extNow, isH264, isAAC,
                 exit, plan, payload, unlinking, probes>>

CopyUnlinkStays ==
  /\ pc = "copied"
  /\ disk' = unlinkSafe(disk, inPath)
  /\ UNCHANGED <<batch, pc, url, target, params, encArgs, picked, inPath, vcodec, acodec, extNow, isH264, isAAC,
                 exit, plan, reply, payload, unlinking, probes, log>>

\* await unlinkSafe(inPath) }
CopyUnlink ==
  /\ pc = "copied"
  /\ disk' = unlinkSafe(disk, inPath)
  /\ pc' = "respond"
  /\ UNCHANGED <<batch, url, target, params, encArgs, picked, inPath, vcodec, acodec, extNow, isH264, isAAC,
                 exit, plan, reply, payload, unlinking, probes, log>>

\* else { const code = await runFFmpeg(buildVideoArgs({ inPath, outPath, ... }))
Transcode ==
  /\ pc = "exec"
  /\ plan = "Transcode"
  /\ \E c \in ExitCodes :
       /\ exit' = c
       /\ IF c = 0
            THEN disk' = WriteFile(disk, File(outPath(target),
                             IF FileAt(disk, inPath).v = None
                               THEN None ELSE EncodedVideo(target),
                             IF FileAt(disk, inPath).a = None
                               THEN None ELSE EncodedAudio(target),
                             FileAt(disk, inPath).size))
            ELSE disk' \in MaybePartial(disk, outPath(target))
  /\ encArgs' = buildVideoArgs([inPath |-> inPath, outPath |-> outPath(target),
                                target |-> target, crf |-> params.crf,
                                preset |-> params.preset,
                                audioKbps |-> params.audioKbps,
                                maxW |-> params.maxW, maxH |-> params.maxH,
                                fps |-> params.fps])
  /\ pc' = "transcoded"
  /\ log' = Append(log, "encodeFinal")
  /\ UNCHANGED <<batch, url, target, params, picked, inPath, vcodec, acodec, extNow, isH264, isAAC,
                 plan, reply, payload, unlinking, probes>>

\* await unlinkSafe(inPath); if (code !== 0) {
TranscodeUnlink ==
  /\ pc = "transcoded"
  /\ disk' = unlinkSafe(disk, inPath)
  /\ pc' = IF exit # 0 THEN "encodeFailed" ELSE "respond"
  /\ UNCHANGED <<batch, url, target, params, encArgs, picked, inPath, vcodec, acodec, extNow, isH264, isAAC,
                 exit, plan, reply, payload, unlinking, probes, log>>

TranscodeFailKeepsOutput ==
  /\ pc = "encodeFailed"
  /\ reply' = Error(500, "ffmpeg failed")
  /\ pc' = "done"
  /\ UNCHANGED <<batch, url, target, params, encArgs, disk, picked, inPath, vcodec, acodec, extNow,
                 isH264, isAAC, exit, plan, payload, unlinking, probes, log>>

\* await unlinkSafe(outPath); return reply.code(500).send({ error: "ffmpeg failed" }) }
TranscodeFail ==
  /\ pc = "encodeFailed"
  /\ disk' = unlinkSafe(disk, outPath(target))
  /\ reply' = Error(500, "ffmpeg failed")
  /\ pc' = "done"
  /\ UNCHANGED <<batch, url, target, params, encArgs, picked, inPath, vcodec, acodec, extNow, isH264, isAAC,
                 exit, plan, payload, unlinking, probes, log>>

\* reply.type(videoMime(target)); const buf = await readFileAndUnlink(outPath);
\* return reply.send(buf).  readFileAndUnlink reads, starts fs.unlink without
\* awaiting it, and returns the buffer.
Respond ==
  /\ pc = "respond"
  /\ IF Exists(disk, outPath(target))
        THEN /\ payload' = Content(FileAt(disk, outPath(target)))
             /\ unlinking' = TRUE
             /\ reply' = [status |-> 200, error |-> None, type |-> videoMime(target)]
        ELSE /\ payload' = payload
             /\ unlinking' = unlinking
             /\ reply' = Catch
  /\ pc' = "done"
  /\ UNCHANGED <<batch, url, target, params, encArgs, disk, picked, inPath, vcodec, acodec, extNow,
                 isH264, isAAC, exit, plan, probes, log>>

\* fs.unlink(filePath).catch(() => {}) completing on its own
BackgroundUnlink ==
  /\ unlinking
  /\ disk' = unlinkSafe(disk, outPath(target))
  /\ unlinking' = FALSE
  /\ UNCHANGED <<batch, pc, url, target, params, encArgs, picked, inPath, vcodec, acodec, extNow,
                 isH264, isAAC, exit, plan, reply, payload, probes, log>>

Next ==
  \/ Start
  \/ DownloadOk
  \/ DownloadRaises
  \/ Select
  \/ NoArtifact
  \/ AudioOnly
  \/ Probe1
  \/ AudioDownloadOk
  \/ AudioDownloadRaises
  \/ MergeEncode
  \/ MergeCleanup
  \/ MergeReplace
  \/ Probe2
  \/ CheckCompat
  \/ FixEncode
  \/ FixFail
  \/ FixReplace
  \/ Probe3
  \/ Plan
  \/ CopyFile
  \/ CopyRaises
  \/ CopyUnlink
  \/ Transcode
  \/ TranscodeUnlink
  \/ TranscodeFail
  \/ Respond
  \/ BackgroundUnlink

Spec == Init /\ [][Next]_vars

\* ------------------------------------------------ the final encode for avi
\* A request {url, target: "avi", crf} with any integer quality factor up to
\* MaxCrf, taken at the point where its download X.mp4 (h264/aac) has been
\* selected and probed and the plan has come out as Transcode; from there
\* the final encode, its cleanup and the response run as in Spec.
MaxCrf == 51
AviDownload == File(dlTemplate("mp4"), "h264", "aac", 1)

InitAvi ==
  /\ \E c \in 0..MaxCrf :
       params = ParamsOf([url |-> "u", target |-> "avi",
                          enc |-> [crf |-> <<c>>, preset |-> None,
                                   audioKbps |-> <<>>, maxW |-> <<>>,
                                   maxH |-> <<>>, fps |-> <<>>]], "avi")
  /\ url = "u" /\ target = "avi"
  /\ encArgs = NoArgs
  /\ disk = {ForeignFile, AviDownload}
  /\ pc = "exec"
  /\ picked = Picked("video", AviDownload)
  /\ inPath = AviDownload.path
  /\ vcodec = "h264" /\ acodec = "aac"
  /\ extNow = "mp4"
  /\ isH264 = TRUE /\ isAAC = TRUE
  /\ exit = 0
  /\ plan = "Transcode"
  /\ reply = NoReply
  /\ payload = NoPayload
  /\ unlinking = FALSE
  /\ probes = << [path |-> AviDownload.path, v |-> "h264", a |-> "aac"] >>
  /\ log = <<"download", "select", "probe", "plan">>
  /\ NoBatch

NextAvi ==
  \/ Transcode
  \/ TranscodeUnlink
  \/ TranscodeFail
  \/ Respond
  \/ BackgroundUnlink

SpecAvi == InitAvi /\ [][NextAvi]_vars

\* ------------------------------------------------- a second, concurrent request
\* Another POST /video runs the same handler under its own randomUUID: between
\* any two steps of this request it may write or unlink files at its own
\* paths UP/<other id>.* and OUT/<other id>.*
OtherFiles ==
  { ForeignFile,
    File(Path("UP", OtherId, "merged", "mp4"), "h264", "aac", 1) }

OtherWrites ==
  /\ \E f \in OtherFiles : f \notin disk /\ disk' = WriteFile(disk, f)
  /\ UNCHANGED <<batch, pc, url, target, params, encArgs, picked, inPath, vcodec, acodec, extNow,
                 isH264, isAAC, exit, plan, reply, payload, unlinking, probes, log>>

OtherUnlinks ==
  /\ \E f \in Tagged(disk, OtherId) : disk' = unlinkSafe(disk, f.path)
  /\ UNCHANGED <<batch, pc, url, target, params, encArgs, picked, inPath, vcodec, acodec, extNow,
                 isH264, isAAC, exit, plan, reply, payload, unlinking, probes, log>>

\* this request posted for mp4 or webm, without encode options
ConcurrentTargets == {"mp4", "webm"}
InitConcurrent ==
  /\ Init
  /\ target \in ConcurrentTargets
  /\ params.preset = "veryfast" /\ params.audioKbps = 128

NextConcurrent == Next \/ OtherWrites \/ OtherUnlinks

SpecConcurrent == InitConcurrent /\ [][NextConcurrent]_vars

\* ------------------------------------------- the batch conversion routes
\* POST /convert-batch of routes/video.ts and routes/audio.ts: the reply is a
\* zip stream; the multipart parts are taken one after the other, each file
\* saved to uploads/, converted to outputs/ and appended to the zip.
MaxParts == 2

\* part.filename: empty (a file input left empty), or a name
FileNames == {"", "a.mov", "b c.wav"}
PartKinds ==
  {[type |-> "field", filename |-> ""]} \cup
  {[type |-> "file", filename |-> n] : n \in FileNames}
Uploads == UNION { [1..n -> PartKinds] : n \in 0..MaxParts }

\* (req.headers["x-target"]) || "mp4", resp. || "mp3"
BatchTargets(r) == IF r = "video" THEN {"mp4", "avi"} ELSE {"mp3", "wav"}

\* video: if (!(part.type === "file" && part.file && part.filename)) continue
\* audio: if (part.type !== "file" || typeof part.file !== "object") continue
Skipped(r, part) ==
  IF r = "video" THEN ~(part.type = "file" /\ part.filename # "")
                 ELSE part.type # "file"

\* const inId = crypto.randomUUID(), one per part
InIds == <<"P1", "P2", "P3", "P4">>
\* path.join(UP, `${inId}-${part.filename}`), path.join(OUT, `${inId}.${target}`)
batchIn(i, part) == Path("UP", InIds[i], part.filename, "")
batchOut(i, t)   == Path("OUT", InIds[i], "", t)

\* path.parse(name).name: the name without its last extension
RECURSIVE LastDot(_)
LastDot(n) ==
  IF Len(n) = 0 THEN 0
  ELSE IF SubSeq(n, Len(n), Len(n)) = "." THEN Len(n)
  ELSE LastDot(SubSeq(n, 1, Len(n) - 1))
ParseName(n) == IF LastDot(n) <= 1 THEN n ELSE SubSeq(n, 1, LastDot(n) - 1)

\* .replace(/[^\w.-]+/g, "_")
NameChars ==
  {"a", "b", "c", "d", "e", "f", "g", "h", "i", "j", "k", "l", "m", "n", "o",
   "p", "q", "r", "s", "t", "u", "v", "w", "x", "y", "z", "0", "1", "2", "3",
   "4", "5", "6", "7", "8", "9", "_", ".", "-"}
RECURSIVE Sanitize(_, _)
Sanitize(n, inRun) ==
  IF Len(n) = 0 THEN ""
  ELSE LET c    == SubSeq(n, 1, 1)
           rest == SubSeq(n, 2, Len(n))
       IN  IF c \in NameChars THEN c \o Sanitize(rest, FALSE)
           ELSE (IF inRun THEN "" ELSE "_") \o Sanitize(rest, TRUE)

\* path.parse(part.filename).name.replace(...) || "file"
BaseName(n) ==
  IF Sanitize(ParseName(n), FALSE) = "" THEN "file"
  ELSE Sanitize(ParseName(n), FALSE)

\* archive.append(data, { name })
Entry(i, name, error, data) ==
  [part |-> i, name |-> name, error |-> error, data |-> data]

\* what a part uploads: a video file, resp. an audio file
Upload(r, p) ==
  IF r = "video" THEN File(p, "h264", "aac", 1) ELSE File(p, None, "aac", 1)

pipeline == <<url, params, encArgs, picked, inPath, vcodec, acodec, extNow,
              isH264, isAAC, plan, payload, unlinking, probes, log>>

InitBatch ==
  /\ route \in {"video", "audio"}
  /\ target \in BatchTargets(route)
  /\ parts \in Uploads
  /\ cur = 0
  /\ archive = <<>>
  /\ zip = None
  /\ pc = "batch"
  /\ disk = {ForeignFile}
  /\ exit = 0
  /\ reply = NoReply
  /\ url = "" /\ params = ParamsOf([enc |-> CHOOSE e \in BodyParams : e.preset = None], target)
  /\ encArgs = NoArgs
  /\ picked = NoPick /\ inPath = NoPath
  /\ vcodec = None /\ acodec = None /\ extNow = None
  /\ isH264 = FALSE /\ isAAC = FALSE
  /\ plan = None
  /\ payload = NoPayload
  /\ unlinking = FALSE
  /\ probes = <<>> /\ log = <<>>

\* reply.type("application/zip"); reply.send(archive)
BatchOpen ==
  /\ pc = "batch"
  /\ reply' = [status |-> 200, error |-> None, type |-> "application/zip"]
  /\ zip' = "open"
  /\ pc' = "iter"
  /\ UNCHANGED <<pipeline, target, disk, exit, route, parts, cur, archive>>

\* for await (const part of parts) { if (...) continue; ...
BatchNext ==
  /\ pc = "iter"
  /\ cur < Len(parts)
  /\ cur' = cur + 1
  /\ pc' = IF Skipped(route, parts[cur + 1]) THEN "iter" ELSE "save"
  /\ UNCHANGED <<pipeline, target, disk, exit, reply, route, parts, archive, zip>>

\* await saveUploadToDisk(part.file, inPath)
BatchSaveOk ==
  /\ pc = "save"
  /\ disk' = WriteFile(disk, Upload(route, batchIn(cur, parts[cur])))
  /\ pc' = "convert"
  /\ UNCHANGED <<pipeline, target, exit, reply, route, parts, cur, archive, zip>>

\* ws.on("error", reject): to the catch block, archive.abort()
BatchSaveRaises ==
  /\ pc = "save"
  /\ disk' \in MaybePartial(disk, batchIn(cur, parts[cur]))
  /\ zip' = "aborted"
  /\ pc' = "ended"
  /\ UNCHANGED <<pipeline, target, exit, reply, route, parts, cur, archive>>

\* const code = await runFFmpeg(args)
BatchConvert ==
  /\ pc = "convert"
  /\ \E c \in ExitCodes :
       /\ exit' = c
       /\ IF c = 0
            THEN disk' = WriteFile(disk, Upload(route, batchOut(cur, target)))
            ELSE disk' \in MaybePartial(disk, batchOut(cur, target))
  /\ pc' = "converted"
  /\ UNCHANGED <<pipeline, target, reply, route, parts, cur, archive, zip>>

\* await unlinkSafe(inPath); if (code !== 0) {
BatchUnlinkIn ==
  /\ pc = "converted"
  /\ disk' = unlinkSafe(disk, batchIn(cur, parts[cur]))
  /\ pc' = IF exit # 0 THEN "failed" ELSE "read"
  /\ UNCHANGED <<pipeline, target, exit, reply, route, parts, cur, archive, zip>>

BatchFailStops ==
  /\ pc = "failed"
  /\ disk' = unlinkSafe(disk, batchOut(cur, target))
  /\ archive' = Append(archive,
                   Entry(cur, BaseName(parts[cur].filename) \o ".ERROR.txt",
                         TRUE, NoPayload))
  /\ zip' = "finalized"
  /\ pc' = "ended"
  /\ UNCHANGED <<pipeline, target, exit, reply, route, parts, cur>>

\* await unlinkSafe(outPath); archive.append(`Failed to convert ...`,
\* { name: `${baseName}.ERROR.txt` }); continue }
BatchFail ==
  /\ pc = "failed"
  /\ disk' = unlinkSafe(disk, batchOut(cur, target))
  /\ archive' = Append(archive,
                   Entry(cur, BaseName(parts[cur].filename) \o ".ERROR.txt",
                         TRUE, NoPayload))
  /\ pc' = "iter"
  /\ UNCHANGED <<pipeline, target, exit, reply, route, parts, cur, zip>>

\* const buf = await fs.readFile(outPath); archive.append(buf, { name })
BatchReadOk ==
  /\ pc = "read"
  /\ Exists(disk, batchOut(cur, target))
  /\ archive' = Append(archive,
                   Entry(cur, BaseName(parts[cur].filename) \o "." \o target,
                         FALSE, Content(FileAt(disk, batchOut(cur, target)))))
  /\ pc' = "appended"
  /\ UNCHANGED <<pipeline, target, disk, exit, reply, route, parts, cur, zip>>

\* fs.readFile rejecting: to the catch block, archive.abort()
BatchReadRaises ==
  /\ pc = "read"
  /\ zip' = "aborted"
  /\ pc' = "ended"
  /\ UNCHANGED <<pipeline, target, disk, exit, reply, route, parts, cur, archive>>

\* await unlinkSafe(outPath) }   // end of the loop body
BatchUnlinkOut ==
  /\ pc = "appended"
  /\ disk' = unlinkSafe(disk, batchOut(cur, target))
  /\ pc' = "iter"
  /\ UNCHANGED <<pipeline, target, exit, reply, route, parts, cur, archive, zip>>

\* await archive.finalize()
BatchFinalize ==
  /\ pc = "iter"
  /\ cur = Len(parts)
  /\ zip' = "finalized"
  /\ pc' = "ended"
  /\ UNCHANGED <<pipeline, target, disk, exit, reply, route, parts, cur, archive>>

NextBatch ==
  \/ BatchOpen
  \/ BatchNext
  \/ BatchSaveOk
  \/ BatchSaveRaises
  \/ BatchConvert
  \/ BatchUnlinkIn
  \/ BatchFail
  \/ BatchReadOk
  \/ BatchReadRaises
  \/ BatchUnlinkOut
  \/ BatchFinalize

SpecBatch == InitBatch /\ [][NextBatch]_vars

\* --------------------------------------------------------------- fairness
\* Every awaited call completes or raises, so a handler that can take a step
\* eventually takes one; requests for mp4 or webm without encode options.
SpecFair == InitConcurrent /\ [][Next]_vars /\ WF_vars(Next)

\* ------------------------------------------------------------ observations
Count(ev) == Cardinality({i \in DOMAIN log : log[i] = ev})
Returned  == pc = "done"
Failed    == Returned /\ reply.status >= 400
Succeeded == Returned /\ reply.status = 200
Planned   == plan # None
Encodes   == Count("encodeMerge") + Count("encodeFix") + Count("encodeFinal")
\* the AAC/MP4 fix has been entered
FixRuns == pc = "fix" \/ Count("encodeFix") > 0
\* the probes, stage encodes and plan decision of the run, in order
IsStage(ev) == ev \in {"probe", "encodeMerge", "encodeFix", "plan"}
Stages == SelectSeq(log, IsStage)

\* files of the download that the selector did not pick
Unselected ==
  {f \in Tagged(disk, Id) :
     f.path.dir = "UP" /\ f.path.stem = "" /\ f.path # picked.full}
\* the artifacts the stages work on: everything tagged except those
StageFiles == Tagged(disk, Id) \ Unselected

\* the codec family a target container expects: H.264/AAC as the route tests
\* it for mp4 and mov, otherwise the codecs buildVideoArgs encodes
InVideoFamily(t, v) == IF WantMp4(t) THEN IsH264(v) ELSE v = EncodedVideo(t)
InAudioFamily(t, a) == IF WantMp4(t) THEN IsAAC(a) ELSE a = EncodedAudio(t)
Matching ==
  /\ ExtName(inPath) = target
  /\ InVideoFamily(target, vcodec)
  /\ InAudioFamily(target, acodec)

\* ------------------------------------------------------------------ claims

\* C1: every run that ends in a failure response leaves no file tagged with
\* the request id in uploads/ or outputs/ once the call has returned.
C1_NoLeakOnFailure == Failed => Tagged(disk, Id) = {}

\* C2: after a successful run at most one file tagged with the request id
\* exists, and if one exists it is the output file holding the returned bytes.
C2_OnlyOutputOnSuccess ==
  Succeeded =>
    \A f \in Tagged(disk, Id) :
       f.path = outPath(target) /\ Content(f) = payload

C4_RepairIffNoAudio ==
  Len(probes) >= 1 =>
    /\ Count("encodeMerge") <= 1
    /\ Count("audioDownload") <= 1
    /\ probes[1].a # None =>
         /\ Count("audioDownload") = 0
         /\ Count("encodeMerge") = 0
         /\ Count("download") = 1
    /\ (probes[1].a = None /\ pc # "probed") => Count("audioDownload") = 1
    /\ (probes[1].a = None /\ Planned) =>
         /\ Count("encodeMerge") = 1
         /\ SubSeq(Stages, 1, 3) = <<"probe", "encodeMerge", "probe">>
         /\ Stages[Len(Stages)] = "plan"
         /\ probes[2].path = mergedWithAudio

C4_Witness ==
  /\ Planned
  /\ probes[1].a = None
  /\ Count("encodeMerge") = 1
  /\ probes[2].a # None

\* C5: for every target container, when the plan is decided for an artifact
\* whose extension equals the target's and whose video and audio codecs both
\* belong to the target's codec family, the plan is Copy and the encoder is
\* not invoked to produce the output.
C5_CopyWhenMatching ==
  (Planned /\ Matching) => (plan = "Copy" /\ Count("encodeFinal") = 0)

\* C6: whenever the plan is Copy, the artifact's extension equals the
\* target's and its probed video and audio codecs belong to the target's
\* codec family; in every other situation the plan is Transcode.
C6_CopyOnlyWhenMatching ==
  Planned =>
    /\ plan = "Copy" => Matching
    /\ ~Matching => plan = "Transcode"

\* C7: when the probe of the planned artifact reports the video or the audio
\* codec as unknown, the plan is Transcode, whatever the target.
C7_UnknownNeverCopy ==
  (Planned /\ (vcodec = None \/ acodec = None)) => plan = "Transcode"

\* C8: when the selected artifact is audio-only the run ends with the "no
\* video stream" error, without any probe, repair stage or encoder call, and
\* with no artifact left on disk.
C8_AudioOnlyTerminates ==
  picked.kind = "audio" =>
    /\ pc \in {"selected", "done"}
    /\ probes = <<>>
    /\ Encodes = 0
    /\ Count("audioDownload") = 0
    /\ Returned =>
         /\ reply = Error(422, "Downloaded file has no video stream.")
         /\ Tagged(disk, Id) = {}

\* C9: the codec facts the plan decision uses are those of a probe taken
\* after the last replacement of the current artifact.
C9_PlanUsesFreshProbe ==
  Planned =>
    /\ probes[Len(probes)].path = inPath
    /\ isH264 = IsH264(probes[Len(probes)].v)
    /\ isAAC = IsAAC(probes[Len(probes)].a)

\* C10 (as stated): the AAC/MP4 fix runs exactly when the target is mp4 or
\* mov and (the probed audio codec is not AAC or the artifact's extension
\* differs from the requested target's extension).
C10_FixIffTargetExt ==
  extNow # None =>
    (FixRuns <=> ((target = "mp4" \/ target = "mov") /\ (~isAAC \/ extNow # target)))

\* C10 (amended): the AAC/MP4 fix runs exactly when the target is mp4 or mov
\* and (the probed audio codec is not AAC or the artifact's extension is not
\* .mp4, also when the target is mov).
C10_FixIffNotMp4 ==
  extNow # None =>
    /\ isAAC = IsAAC(probes[IF Count("encodeMerge") > 0 THEN 2 ELSE 1].a)
    /\ FixRuns <=> (target \in {"mp4", "mov"} /\ (~isAAC \/ extNow # "mp4"))
    /\ Count("encodeFix") <= 1

C10_Witness ==
  /\ target = "mov"
  /\ extNow = "mov"
  /\ isAAC
  /\ Count("encodeFix") = 1

\* ------------------------------------------------------------------------ C11
\* the step orders a run may follow, as sequences of logged events
IsPrefix(s, t) == Len(s) <= Len(t) /\ SubSeq(t, 1, Len(s)) = s
RepairSteps == { <<>>, <<"audioDownload", "encodeMerge", "probe">> }
CompatSteps == { <<>>, <<"encodeFix", "probe">> }
ExecSteps   == { <<"copy">>, <<"encodeFinal">> }
CanonicalRuns ==
  { <<"download", "select", "probe">> \o r \o c \o <<"plan">> \o e :
      r \in RepairSteps, c \in CompatSteps, e \in ExecSteps }

\* C11: every run executes its steps in the order Download, Select, Probe,
\* optional AudioRepair with its re-probe, optional AudioCompatibility with its
\* re-probe, one plan decision, then the plan's execution; a run that succeeds
\* has gone through one whole such sequence.
C11_StepOrder ==
  /\ \E r \in CanonicalRuns : IsPrefix(log, r)
  /\ Succeeded => log \in CanonicalRuns

\* a successful run in which both optional stages ran
C11_Witness ==
  /\ Succeeded
  /\ Count("encodeMerge") = 1
  /\ Count("encodeFix") = 1
  /\ Len(log) = 10

\* ------------------------------------------------------------------------ C12
\* C12: out of the files tagged with the request id, the selector returns the
\* largest one with a video container extension if there is one, even when a
\* larger audio file is present; otherwise the largest one with an audio
\* extension; otherwise nothing.  A file tagged with another id is never
\* returned.
C12_SelectorPicks ==
  pc = "selected" =>
    LET mine == {f \in disk : f.path.id = Id}
        vids == {f \in mine : ToLower(f.path.ext) \in VIDEO_EXTS}
        auds == {f \in mine : ToLower(f.path.ext) \in AUDIO_EXTS}
        LargestOf(S) ==
          \E f \in S : /\ picked.full = f.path
                        /\ picked.size = f.size
                        /\ \A g \in S : g.size <= f.size
    IN  IF vids # {} THEN picked.kind = "video" /\ LargestOf(vids)
        ELSE IF auds # {} THEN picked.kind = "audio" /\ LargestOf(auds)
        ELSE picked = NoPick

\* a smaller video file is selected over a larger audio file of the request
\* and over a larger video file of another request
C12_Witness ==
  /\ pc = "selected"
  /\ picked.kind = "video"
  /\ picked.size = 1
  /\ \E f \in disk : /\ f.path.id = Id
                      /\ ToLower(f.path.ext) \in AUDIO_EXTS
                      /\ f.size = 2
  /\ ForeignFile \in disk

\* ------------------------------------------------------------------------ C13
\* the class of a failed run, from the step it failed in
FailClass ==
  IF picked = NoPick THEN "NoSourceArtifact"
  ELSE IF picked.kind = "audio" THEN "VideoStreamAbsent"
  ELSE IF log[Len(log)] \in {"audioDownload", "encodeMerge", "encodeFix"}
    THEN "RepairFailed"
  ELSE "EncodeFailed"
\* the class an error response names
ClassOfReply(r) ==
  CASE r = Error(500, "Download failed") -> "NoSourceArtifact"
    [] r = Error(422, "Downloaded file has no video stream.") -> "VideoStreamAbsent"
    [] r = Error(500, "ffmpeg failed while merging audio") -> "RepairFailed"
    [] r = Error(500, "ffmpeg failed while fixing audio") -> "RepairFailed"
    [] r = Error(500, "ffmpeg failed") -> "EncodeFailed"
    [] OTHER -> "Unclassified"

\* C13: every failed pipeline run is reported with an error that identifies
\* its class (NoSourceArtifact, VideoStreamAbsent, RepairFailed or
\* EncodeFailed), so that two failures of different classes never produce the
\* same response and no generic catch-all error is used.
C13_ErrorIdentifiesClass ==
  (Failed /\ url # "") => ClassOfReply(reply) = FailClass

\* ------------------------------------------------------------------------ C14
\* C14: when the merge encode of the audio repair ends with a nonzero exit
\* code, no partial merged output is left behind and the merge is not run a
\* second time.
C14_MergeFailureCleansOutput ==
  (Returned /\ reply = Error(500, "ffmpeg failed while merging audio")) =>
    /\ ~Exists(disk, mergedWithAudio)
    /\ Count("encodeMerge") = 1

\* ------------------------------------------------------------------------ C15
\* the artifact the AAC/MP4 fix was given
FixPredecessor ==
  IF Count("encodeMerge") = 1 THEN mergedWithAudio ELSE picked.full

\* C15: once the AAC/MP4 fix has ended, with success or with failure, the
\* artifact it was given no longer exists.
C15_FixDeletesPredecessor ==
  (Count("encodeFix") = 1 /\ pc # "fixRan") => ~Exists(disk, FixPredecessor)

\* ------------------------------------------------------------------------ C16
\* the merge has run and exited with 0
MergeSucceeded ==
  Count("encodeMerge") = 1 /\ (pc = "mergeOk" \/ Len(probes) >= 2)

\* C16: once a successful merge has been taken over, the original video-only
\* file and the standalone audio file are gone for the rest of the run, and
\* until a later stage replaces it the merged file is the current artifact
\* and the only stage file on disk.
C16_MergeReplacesInputs ==
  (MergeSucceeded /\ pc # "mergeOk") =>
    /\ ~Exists(disk, picked.full)
    /\ ~Exists(disk, audioTmp)
    /\ pc \in {"reprobe", "reprobed"} =>
         /\ inPath = mergedWithAudio
         /\ Exists(disk, mergedWithAudio)
         /\ {f.path : f \in StageFiles} = {mergedWithAudio}

\* the merged file has been taken over and re-probed with an audio track
C16_Witness ==
  /\ pc = "reprobed"
  /\ inPath = mergedWithAudio
  /\ acodec = "aac"
  /\ Exists(disk, mergedWithAudio)

\* ------------------------------------------------------------------------ C17
\* C17: when the final encode exits with a nonzero code, the run ends with the
\* error "ffmpeg failed", without payload, and neither the partial output nor
\* the encode's input is left on disk.
C17_TranscodeFailure ==
  (Returned /\ Count("encodeFinal") = 1 /\ exit # 0) =>
    /\ reply = Error(500, "ffmpeg failed")
    /\ payload = NoPayload
    /\ ~Exists(disk, outPath(target))
    /\ ~Exists(disk, inPath)

\* a failed final encode has been answered
C17_Witness ==
  /\ Returned
  /\ Count("encodeFinal") = 1
  /\ exit # 0
  /\ reply.status = 500

\* ------------------------------------------------------------------------ C18
\* option k is given to the final encode with value v
Given(k, v) == k \in DOMAIN encArgs /\ encArgs[k] = v
\* the resize box and frame rate of the request are applied when they are set
ResizeAndRateApplied ==
  /\ (params.maxW > 0 \/ params.maxH > 0) =>
        Given("vf", << IF params.maxW > 0 THEN params.maxW ELSE -1,
                       IF params.maxH > 0 THEN params.maxH ELSE -1 >>)
  /\ (params.maxW = 0 /\ params.maxH = 0) => "vf" \notin DOMAIN encArgs
  /\ IF params.fps > 0 THEN Given("r", params.fps) ELSE "r" \notin DOMAIN encArgs
\* a plan other than Copy is Transcode, executed by one final encode
TranscodeOnce ==
  /\ (Planned /\ plan # "Copy") => plan = "Transcode"
  /\ (plan = "Transcode" /\ pc # "exec") => Count("encodeFinal") = 1
  /\ Count("encodeFinal") <= 1
  /\ Count("encodeFinal") = 1 => plan = "Transcode" /\ encArgs # NoArgs

\* C18 (as stated): whenever the plan is not Copy it is Transcode, and the
\* final encode is started once with the quality factor, preset, audio
\* bitrate, resize box and frame rate of the request, writing to the output
\* path of the requested target.
C18_TranscodeAllParams ==
  /\ TranscodeOnce
  /\ encArgs # NoArgs =>
       /\ Given("out", outPath(target))
       /\ Given("crf", params.crf)
       /\ Given("preset", params.preset)
       /\ Given("ba", params.audioKbps)
       /\ ResizeAndRateApplied

\* C18 (amended): whenever the plan is not Copy it is Transcode, and the final
\* encode is started once, reading the current artifact and writing to the
\* output path of the requested target, with the audio bitrate of the request
\* and its resize box and frame rate when set; the quality factor is given
\* as such for every target but avi, where a quantiser scale in 2..31 takes
\* its place, and the preset is given for mp4, mov, mkv and flv only.
C18_TranscodeParamsByTarget ==
  /\ TranscodeOnce
  /\ encArgs # NoArgs =>
       /\ Given("out", outPath(target))
       /\ "i" \in DOMAIN encArgs /\ encArgs["i"].id = Id
       /\ Given("ba", params.audioKbps)
       /\ ResizeAndRateApplied
       /\ IF target = "avi"
             THEN /\ "crf" \notin DOMAIN encArgs
                  /\ "qv" \in DOMAIN encArgs /\ encArgs["qv"] \in 2..31
             ELSE Given("crf", params.crf)
       /\ IF target \in {"mp4", "mov", "mkv", "flv"}
             THEN Given("preset", params.preset)
             ELSE "preset" \notin DOMAIN encArgs

\* X.webm with vp9/opus and target mp4 has been sent, after the AAC/MP4 fix,
\* through the final encode with a quality factor, preset and bitrate chosen
\* by the request
C18_Witness ==
  /\ pc = "transcoded"
  /\ target = "mp4"
  /\ picked.ext = "webm"
  /\ probes[1].v = "vp9" /\ probes[1].a = "opus"
  /\ vcodec = "vp9"
  /\ plan = "Transcode"
  /\ params.crf = 30 /\ params.preset = "slow" /\ params.audioKbps = 192
  /\ Given("crf", 30) /\ Given("preset", "slow") /\ Given("ba", 192)

\* ------------------------------------------------------------------------ C19
\* a step of this request, as opposed to one of the concurrent request
OwnStep == pc' # pc \/ unlinking' # unlinking
\* the files a step creates, overwrites or deletes
Changed == (disk \ disk') \cup (disk' \ disk)

\* C19: with another request running concurrently under a different id,
\* every file a step of this request creates, overwrites or deletes is tagged
\* with this request's id, and so is every file it selects, probes, holds as
\* its current artifact or hands to the encoder; a step of the other request
\* changes only files tagged with the other id, so the two never write the
\* same file name.
C19_OwnFilesOnly ==
  [][ /\ OwnStep => /\ \A f \in Changed : f.path.id = Id
                    /\ picked'.kind # None => picked'.full.id = Id
                    /\ inPath' # NoPath => inPath'.id = Id
                    /\ \A i \in DOMAIN probes' : probes'[i].path.id = Id
                    /\ encArgs' # NoArgs => /\ encArgs'["i"].id = Id
                                           /\ encArgs'["out"].id = Id
      /\ ~OwnStep => \A f \in Changed : f.path.id = OtherId ]_vars

\* this request holds its merged file while the other request's download and
\* merged file are on disk next to it
C19_Witness ==
  /\ pc = "reprobed"
  /\ Exists(disk, mergedWithAudio)
  /\ OtherFiles \subseteq disk

\* ------------------------------------------------------------------------ C20
\* C20: within one run every stage is attempted once and never retried: at
\* most one download, one audio download, one merge encode, one fix encode
\* and one execution of the plan, with at most one probe after the selection
\* and after each of the two repair encodes; a failed encode is followed by
\* no further external call, and the one call the handler does not wait for,
\* the unlink of the output, is in flight only after the run has returned.
C20_OneAttemptPerStage ==
  /\ Count("download") <= 1
  /\ Count("audioDownload") <= 1
  /\ Count("encodeMerge") <= 1
  /\ Count("encodeFix") <= 1
  /\ Count("encodeFinal") + Count("copy") <= 1
  /\ Count("probe") <= 1 + Count("encodeMerge") + Count("encodeFix")
  /\ Len(probes) = Count("probe")
  /\ (Returned /\ exit # 0) =>
        log[Len(log)] \in {"encodeMerge", "encodeFix", "encodeFinal"}
  /\ unlinking => Returned

\* a run that went through the merge, the fix and the final encode
C20_Witness ==
  /\ Returned
  /\ Count("encodeMerge") = 1
  /\ Count("encodeFix") = 1
  /\ Count("encodeFinal") = 1
  /\ Count("probe") = 3

\* ------------------------------------------------------------------------ C21
\* the probe reported no stream at all
ProbeFailed(r) == r.v = None /\ r.a = None

\* C21: a probe never raises: each probe ends with a reported pair, unknown on
\* both sides when it failed, and leaves the run unanswered and not
\* terminated; a run never fails at a probe.
C21_ProbeNeverRaises ==
  /\ Len(probes) = Count("probe")
  /\ (log # <<>> /\ log[Len(log)] = "probe") =>
        /\ pc \in {"probed", "reprobed", "fix", "plan"}
        /\ reply = NoReply
        /\ vcodec = probes[Len(probes)].v
        /\ acodec = probes[Len(probes)].a
  /\ (Failed /\ log # <<>>) => log[Len(log)] # "probe"

\* a run in which all three probes failed and which still delivered
C21_Witness ==
  /\ Succeeded
  /\ Len(probes) = 3
  /\ \A i \in DOMAIN probes : ProbeFailed(probes[i])

\* ------------------------------------------------------------------------ C22
\* C22: the selection step creates, deletes and modifies no file: the files
\* on disk are the same before and after it, whatever it returns.
C22_SelectorReadOnly ==
  [][(pc = "select" /\ pc' = "selected") => disk' = disk]_vars

\* a selection that returned one of two downloaded files and left both
C22_Witness ==
  /\ pc = "selected"
  /\ picked.kind = "video"
  /\ Cardinality({f \in disk : f.path.id = Id}) = 2

\* ------------------------------------------------------------------------ C23
\* files of the request in uploads/ with a recognized extension
Recognized ==
  {f \in disk : /\ f.path.dir = "UP" /\ f.path.id = Id
                /\ ToLower(f.path.ext) \in VIDEO_EXTS \cup AUDIO_EXTS}

\* C23: when the download leaves no file of the request with a recognized
\* video or audio extension, the selection returns nothing and the run ends
\* with 500 "Download failed" after exactly one download and one selection,
\* without probe or encode.
C23_NoArtifactTerminates ==
  /\ (pc = "selected" /\ Recognized = {}) => picked = NoPick
  /\ (Count("select") = 1 /\ picked = NoPick) =>
        /\ log = <<"download", "select">>
        /\ probes = <<>>
        /\ pc \in {"selected", "done"}
        /\ Returned => reply = Error(500, "Download failed")

\* the download left only a file with an unrecognized extension and the run
\* has been answered
C23_Witness ==
  /\ Returned
  /\ picked = NoPick
  /\ Count("select") = 1
  /\ \E f \in disk : f.path.id = Id /\ f.path.ext = "jpg"

\* ------------------------------------------------------------------------ C24
\* the MIME type of a target container
MimeOf(t) ==
  CASE t = "mp4"  -> "video/mp4"
    [] t = "webm" -> "video/webm"
    [] t = "mkv"  -> "video/x-matroska"
    [] t = "avi"  -> "video/x-msvideo"
    [] t = "mov"  -> "video/quicktime"
    [] t = "flv"  -> "video/x-flv"

\* C24: a request is answered exactly when its handler has returned, and the
\* answer is either a payload whose content type is the MIME type of the
\* requested target or a structured error without payload.
C24_OneTypedResponse ==
  /\ Returned <=> reply # NoReply
  /\ ~Returned => payload = NoPayload
  /\ Returned =>
        \/ /\ reply.status = 200
           /\ payload # NoPayload
           /\ reply.type = MimeOf(target)
        \/ /\ reply.status \in {400, 422, 500}
           /\ reply.error # None
           /\ reply.type = "application/json"
           /\ payload = NoPayload

\* a payload has been sent for target mov
C24_Witness ==
  /\ Succeeded
  /\ target = "mov"
  /\ reply.type = "video/quicktime"
  /\ payload # NoPayload

\* ------------------------------------------------------------------------ C27
\* C27: a request whose url is missing, empty or only whitespace is answered
\* with 400 "Missing url" and nothing else happens: no download, probe or
\* encode is started and the files on disk stay as they were; no other
\* request is answered with 400.
C27_MissingUrlRejected ==
  /\ url = "" =>
        /\ pc \in {"start", "done"}
        /\ log = <<>> /\ probes = <<>>
        /\ disk = {ForeignFile}
        /\ picked = NoPick /\ inPath = NoPath
        /\ Returned => reply = Error(400, "Missing url") /\ payload = NoPayload
  /\ (Returned /\ reply.status = 400) => url = ""

\* a request without url has been rejected
C27_Witness ==
  /\ url = ""
  /\ Returned
  /\ reply.status = 400
  /\ disk = {ForeignFile}

\* ------------------------------------------------------------------------ C30
\* C30: for target mp4 or mov the artifact that reaches the plan decision has
\* the extension .mp4 (compared in lower case, as the route does); for
\* target webm or mkv, once the audio repair has merged, the current artifact
\* is the merged .mp4 file for the rest of the run and the plan is Transcode.
C30_ArtifactAtPlan ==
  /\ (WantMp4(target) /\ (pc = "plan" \/ Planned)) =>
        ToLower(inPath.ext) = "mp4"
  /\ (target \in {"webm", "mkv"} /\ MergeSucceeded /\ pc # "mergeOk") =>
        /\ inPath = mergedWithAudio
        /\ inPath.ext = "mp4"
        /\ Planned => plan = "Transcode"

\* target webm: the merged file has been planned for a transcode
C30_Witness ==
  /\ target = "webm"
  /\ Count("encodeMerge") = 1
  /\ pc = "exec"
  /\ inPath = mergedWithAudio
  /\ plan = "Transcode"

\* ------------------------------------------------------------------------ C28
\* C28: for target avi the quantiser scale given to the encoder is
\* (crf - 18) * 2 + 2 clamped into 2..31: it lies between 2 and 31, is 2 for
\* every crf up to 18 and 31 for every crf from 33 on, and in between it is
\* 2 * crf - 34, so it never decreases as crf grows.
C28_QscaleClamped ==
  (target = "avi" /\ encArgs # NoArgs) =>
    LET c == params.crf
        q == encArgs["qv"]
    IN  /\ q \in 2..31
        /\ c <= 18 => q = 2
        /\ c >= 33 => q = 31
        /\ (18 < c /\ c < 33) => q = 2 * c - 34
        /\ "crf" \notin DOMAIN encArgs

\* the final encode has run for avi with the largest quality factor, which
\* is clamped to 31
C28_Witness ==
  /\ target = "avi"
  /\ pc = "transcoded"
  /\ params.crf = MaxCrf
  /\ encArgs # NoArgs
  /\ encArgs["qv"] = 31

\* ------------------------------------------------------------------------ C29
\* C29: provided every external call completes or raises, every run
\* eventually returns and stays returned with its response sent; once
\* returned, the handler takes no further step and the response never
\* changes.
C29_Terminates ==
  /\ <>[](Returned /\ reply # NoReply)
  /\ [][Returned => (pc' = pc /\ reply' = reply /\ log' = log
                       /\ payload' = payload)]_vars

\* a run that delivered its payload and whose output file has been removed
C29_Witness ==
  /\ Succeeded
  /\ ~unlinking
  /\ ~Exists(disk, outPath(target))
  /\ Len(log) = 10

\* ------------------------------------------------------------------------ C25
\* the entries of the archive follow the upload order, one part at a time
InUploadOrder ==
  /\ \A j, k \in DOMAIN archive : j < k => archive[j].part < archive[k].part
  /\ \A j \in DOMAIN archive : archive[j].part <= cur
  /\ Cardinality({f \in disk : f.path.id # OtherId}) <= 2
\* a part whose conversion exits nonzero gets one error entry named after it,
\* any other converted part one entry with the output; the loop goes on
ErrorEntries ==
  /\ \A j \in DOMAIN archive :
        /\ archive[j].error <=> archive[j].data = NoPayload
        /\ archive[j].name =
              BaseName(parts[archive[j].part].filename) \o
                (IF archive[j].error THEN ".ERROR.txt" ELSE "." \o target)
  /\ (pc = "iter" /\ archive # <<>> /\ archive[Len(archive)].part = cur) =>
        (archive[Len(archive)].error <=> exit # 0)
\* the parts that have an entry
Entered == {archive[j].part : j \in DOMAIN archive}

\* C25 (as stated): in both batch routes the files are converted one at a time
\* in upload order, a failed conversion adds one <name>.ERROR.txt entry and
\* the loop goes on, and the finalized archive holds exactly one entry per
\* uploaded file part.
C25_OneEntryPerFilePart ==
  /\ InUploadOrder
  /\ ErrorEntries
  /\ zip = "finalized" =>
        /\ Entered = {i \in DOMAIN parts : parts[i].type = "file"}
        /\ Len(archive) = Cardinality(Entered)

\* C25 (amended): as above, but the finalized archive holds exactly one entry
\* per uploaded file part that the route converts: every file part in the
\* audio route, and in the video route every file part with a non-empty file
\* name (a file part without file name is skipped there).
C25_OneEntryPerConvertedPart ==
  /\ InUploadOrder
  /\ ErrorEntries
  /\ zip = "finalized" =>
        /\ Entered = {i \in DOMAIN parts :
                         /\ parts[i].type = "file"
                         /\ route = "video" => parts[i].filename # ""}
        /\ Len(archive) = Cardinality(Entered)

\* a finalized archive whose first entry is an error entry and whose second
\* is a converted file
C25_Witness ==
  /\ zip = "finalized"
  /\ Len(archive) = 2
  /\ archive[1].error /\ archive[1].name = "b_c.ERROR.txt"
  /\ ~archive[2].error

\* ------------------------------------------------------------------------ C26
\* C26: once a batch request has ended, with its archive finalized or
\* aborted, no upload and no converted output of the request is on disk.
C26_BatchLeavesNoFile ==
  pc = "ended" => disk = {ForeignFile}
====
